---- MODULE Spec2Model ----
(***************************************************************************)
(* Fantasy draft number generator: the three FantasyDraftApp variants.     *)
(*   "local" : localStorage blob            (src/unnamed/part_000)         *)
(*   "url"   : localStorage + ?players= URL (src/app.js 1-391)             *)
(*   "duck"  : DuckDB table, async handlers (src/app.js 392-673)           *)
(* The variant is fixed when the page is opened.  A handler of the         *)
(* synchronous variants is one action; an async handler of the DuckDB      *)
(* variant is one action per stretch of code between two awaits.           *)
(***************************************************************************)
EXTENDS Integers, Sequences, FiniteSets, TLC

\* ---- program constants
maxPlayers == 10
PoolSize == 10

\* ---- bounds of the model
\* Math.random() is k / RandomResolution for k in 0 .. RandomResolution-1
RandomResolution == 10
\* the application runs draw the readings 0 .. MaxDraws-1 (out of RandomResolution)
MaxDraws == 2
\* names 1 .. MaxMixedCase are typed in lower case and capitalised
MaxMixedCase == 1
\* names 1 .. MaxRetyped are typed again after they were assigned
MaxRetyped == 2
\* async calls (query awaited) in flight at the same time in the DuckDB variant
MaxInFlight == 2
\* storage and database operations that fail in one run
MaxFaults == 1
\* times the user starts a call while another one is in flight
MaxOverlaps == 1
\* Date.now() reads 1 .. MaxNow
MaxNow == 2
\* records in the roster a shared link carries
MaxShared == 2

VARIABLES
    variant,      \* which of the three applications runs in this page
    players,      \* this.players (local, url)
    usedNumbers,  \* this.usedNumbers
    storage,      \* localStorage[this.storageKey] (local, url)
    conn,         \* this.conn: "connecting" and "failed" are null, "open" is the connection (duck)
    table,        \* rows of draft_players, in insertion order (duck)
    pending,      \* queries sent on this.conn and not yet settled, FIFO (duck)
    listeners,    \* setupEventListeners has run
    dom,          \* the sections shown and the texts written to the page
    now,          \* Date.now()
    faults,       \* storage and database operations that have failed so far
    overlapsLeft, \* times the user may still start a call while another one is in flight
    drawn         \* what a call of generateRandomDraftNumber made on its own returned

vars == <<variant, players, usedNumbers, storage, conn, table, pending,
          listeners, dom, now, faults, overlapsLeft, drawn>>

Variants == {"local", "url", "duck"}
SyncVariants == {"local", "url"}

\* ------------------------------------------------------------------ names
\* A name is a word (base) typed either in lower case or capitalised; base 0
\* is the empty string.
Blank == [base |-> 0, upper |-> FALSE]
Name(b, u) == [base |-> b, upper |-> u]

toLowerCase(n) == [n EXCEPT !.upper = FALSE]

\* the text of the input box: a name, possibly with blanks around it
trim(input) == input.text

\* ------------------------------------------------------------------ messages
MsgEnterName == "Please enter your name!"
MsgNameTaken == "This name has already been assigned a draft number!"
MsgRosterFull == "Maximum 10 players allowed! Clear the list to add more."
MsgLimitReached == "Maximum 10 players allowed! Clear the list to start over."
MsgPoolExhausted == "All draft numbers (1-10) have been assigned!"
MsgSaveFailed == "Failed to save player data"
MsgInsertFailed == "INSERT failed"
MsgClearFailed == "Failed to clear players"
MsgInitFailed == "Failed to initialize the application. Please refresh the page."

\* ------------------------------------------------------------------ page
\* dom is the page as it is displayed: the sections with display "block" and
\* the texts in them.  The text of a section that is hidden is dropped: no
\* code reads it, and a section is shown again only by the function that
\* first rewrites its text (showError, showResult).
InitialDom == [sections |-> {"inputForm"}, errorMessage |-> "",
               resultName |-> Blank, resultNumber |-> 0]

showElement(d, id) == [d EXCEPT !.sections = @ \cup {id}]

hideElement(d, id) ==
    LET h == [d EXCEPT !.sections = @ \ {id}] IN
    IF id = "errorDisplay" THEN [h EXCEPT !.errorMessage = ""]
    ELSE IF id = "resultDisplay" THEN [h EXCEPT !.resultName = Blank, !.resultNumber = 0]
    ELSE h

hideAllSections(d) ==
    hideElement(hideElement(hideElement(hideElement(d, "inputForm"),
        "resultDisplay"), "loading"), "errorDisplay")

showError(d, message) ==
    showElement([d EXCEPT !.errorMessage = message], "errorDisplay")

showResult(d, playerName, draftNumber) ==
    showElement([hideAllSections(d) EXCEPT !.resultName = playerName,
                                           !.resultNumber = draftNumber],
                "resultDisplay")

showInputForm(d) == showElement(hideAllSections(d), "inputForm")

showLoading(d, show) ==
    IF show THEN showElement(hideAllSections(d), "loading")
    ELSE hideElement(d, "loading")

\* ------------------------------------------------------------------ records
Player(id, name, draftNumber) ==
    [id |-> id, name |-> name, draftNumber |-> draftNumber]

NullId == 0

Range(s) == {s[i] : i \in DOMAIN s}
DraftNumbers(s) == {s[i].draftNumber : i \in DOMAIN s}

\* Array.prototype.sort((a, b) => a.draftNumber - b.draftNumber): stable
RECURSIVE SortInsert(_, _)
SortInsert(s, p) ==
    IF s = <<>> THEN <<p>>
    ELSE IF Head(s).draftNumber <= p.draftNumber
         THEN <<Head(s)>> \o SortInsert(Tail(s), p)
         ELSE <<p>> \o s

RECURSIVE SortFrom(_, _)
SortFrom(acc, rest) ==
    IF rest = <<>> THEN acc
    ELSE SortFrom(SortInsert(acc, Head(rest)), Tail(rest))

\* displayPlayersList sorts the array it is given in place; this is the array
\* after the call
displayPlayersList(list) == SortFrom(<<>>, list)

\* ------------------------------------------------------------------ JSON, base64
NoItem == [kind |-> "null", val |-> <<>>]
BadText == [kind |-> "invalid", val |-> <<>>]
JSONstringify(list) == [kind |-> "array", val |-> list]
JSONparse(text) ==
    IF text.kind \in {"array", "object"}
    THEN [threw |-> FALSE, isArray |-> text.kind = "array", val |-> text.val]
    ELSE [threw |-> TRUE, isArray |-> FALSE, val |-> <<>>]

NoToken == [kind |-> "none", body |-> NoItem]
btoa(text) == [kind |-> "b64", body |-> text]
atob(token) ==
    IF token.kind = "b64" THEN [threw |-> FALSE, text |-> token.body]
    ELSE [threw |-> TRUE, text |-> BadText]

\* ------------------------------------------------------------------ allocator
\* mutant: the loop stops at i < 10
availableNumbers_LoopStopsEarly(used) ==
    SelectSeq([i \in 1..(PoolSize - 1) |-> i], LAMBDA i : i \notin used)

availableNumbers(used) ==
    SelectSeq([i \in 1..PoolSize |-> i], LAMBDA i : i \notin used)

\* Math.floor(Math.random() * availableNumbers.length), Math.random() = r / RandomResolution
randomIndex(r, len) == (r * len) \div RandomResolution

NoDraw == [threw |-> FALSE, value |-> 0, message |-> ""]
Returned(v) == [threw |-> FALSE, value |-> v, message |-> ""]
Thrown(m) == [threw |-> TRUE, value |-> 0, message |-> m]

\* local and url variants
generateRandomDraftNumber(list, used, r) ==
    IF Len(list) >= maxPlayers THEN Thrown(MsgLimitReached)
    ELSE LET avail == availableNumbers(used) IN
         IF Len(avail) = 0 THEN Thrown(MsgPoolExhausted)
         ELSE Returned(avail[randomIndex(r, Len(avail)) + 1])

\* DuckDB variant
generateRandomDraftNumberDB(used, r) ==
    LET avail == availableNumbers(used) IN
    IF Len(avail) = 0 THEN Thrown(MsgPoolExhausted)
    ELSE Returned(avail[randomIndex(r, Len(avail)) + 1])

\* the readings of Math.random() drawn in the application runs
RandomDraws == 0..(MaxDraws - 1)

\* ------------------------------------------------------------------ roster store (local, url)
playerExists(list, name) ==
    \E i \in DOMAIN list : toLowerCase(list[i].name) = toLowerCase(name)

\* the application state the synchronous methods work on
App(pl, used, st, d) == [players |-> pl, usedNumbers |-> used, storage |-> st, dom |-> d]

\* localStorage.setItem throws when writeFails
savePlayersToJSON(a, writeFails) ==
    IF writeFails THEN [a EXCEPT !.dom = showError(a.dom, MsgSaveFailed)]
    ELSE [a EXCEPT !.storage = JSONstringify(a.players)]

savePlayer(a, name, draftNumber, writeFails) ==
    savePlayersToJSON(
        [a EXCEPT !.players = Append(a.players, Player(now, name, draftNumber)),
                  !.usedNumbers = a.usedNumbers \cup {draftNumber}],
        writeFails)

\* localStorage.getItem throws when readFails
loadPlayersFromJSON(a, readFails) ==
    LET parsed == IF a.storage = NoItem THEN [threw |-> FALSE, isArray |-> TRUE, val |-> <<>>]
                  ELSE JSONparse(a.storage)
    IN IF readFails \/ parsed.threw
       THEN [a EXCEPT !.players = <<>>]
       ELSE [a EXCEPT !.players = displayPlayersList(parsed.val),
                      !.usedNumbers = DraftNumbers(parsed.val)]

loadPlayersFromURL(a, token, writeFails) ==
    IF token = NoToken THEN a
    ELSE LET decoded == atob(token)
             parsed == IF decoded.threw THEN JSONparse(BadText) ELSE JSONparse(decoded.text)
         IN IF parsed.threw \/ ~parsed.isArray \/ Len(parsed.val) = 0 THEN a
            ELSE savePlayersToJSON([a EXCEPT !.players = parsed.val,
                                             !.usedNumbers = DraftNumbers(parsed.val)],
                                   writeFails)

generateShareableURL(list) == btoa(JSONstringify(list))

\* ------------------------------------------------------------------ inputs
\* names the roster, the table or a call in flight holds
KnownBases ==
    ({players[i].name.base : i \in DOMAIN players}
       \cup {table[i].name.base : i \in DOMAIN table}
       \cup {pending[i].name.base : i \in DOMAIN pending}) \ {0}

NextFresh == CHOOSE b \in 1..(Cardinality(KnownBases) + 1) : b \notin KnownBases

\* what the user types: nothing, a name typed before, or a name never typed
InputNames ==
    {Blank} \cup
    {n \in {Name(b, u) : b \in (KnownBases \cap 1..MaxRetyped) \cup {NextFresh},
                         u \in BOOLEAN} :
        n.upper => n.base <= MaxMixedCase}

Inputs == {[text |-> n, pad |-> p] : n \in InputNames, p \in BOOLEAN}

\* ?players= values a page is opened with
Rec(b, d) == Player(1, Name(b, FALSE), d)
ElevenPlayers == [i \in 1..(maxPlayers + 1) |-> Rec(i, ((i - 1) % PoolSize) + 1)]
Tokens ==
    { NoToken,
      [kind |-> "garbage", body |-> BadText],
      btoa(BadText),
      btoa([kind |-> "object", val |-> <<>>]),
      btoa(JSONstringify(<<>>)),
      btoa(JSONstringify(<<Rec(1, 7), Rec(2, 3)>>)),
      btoa(JSONstringify(<<Rec(1, 4), Rec(2, 4)>>)),
      btoa(JSONstringify(<<Rec(1, 11)>>)),
      btoa(JSONstringify(ElevenPlayers)) }

\* the environment makes the operations flagged in fs fail
Failing(fs) ==
    LET n == Cardinality({i \in DOMAIN fs : fs[i]}) IN
    /\ faults + n <= MaxFaults
    /\ faults' = faults + n

\* the user starts an async call, possibly while others are in flight
Starting ==
    /\ Len(pending) < MaxInFlight
    /\ IF pending = <<>> THEN UNCHANGED overlapsLeft
       ELSE overlapsLeft > 0 /\ overlapsLeft' = overlapsLeft - 1

\* ------------------------------------------------------------------ initial state
\* the state when `new FantasyDraftApp()` returns on a first visit: the
\* synchronous variants have loaded an empty localStorage, the DuckDB variant
\* has initializeApp waiting on initializeDuckDB
Init ==
    /\ variant \in Variants
    /\ players = <<>>
    /\ usedNumbers = {}
    /\ storage = NoItem
    /\ conn = "connecting"
    /\ table = <<>>
    /\ pending = <<>>
    /\ listeners = (variant \in SyncVariants)
    /\ dom = InitialDom
    /\ now = 1
    /\ faults = 0
    /\ overlapsLeft = MaxOverlaps
    /\ drawn = NoDraw

\* the same, with a user who waits for each call to end before starting the next
InitSerial ==
    /\ variant \in Variants
    /\ players = <<>>
    /\ usedNumbers = {}
    /\ storage = NoItem
    /\ conn = "connecting"
    /\ table = <<>>
    /\ pending = <<>>
    /\ listeners = (variant \in SyncVariants)
    /\ dom = InitialDom
    /\ now = 1
    /\ faults = 0
    /\ overlapsLeft = 0
    /\ drawn = NoDraw

DuckVars == <<conn, table, pending>>
SyncVars == <<players, storage>>

\* ------------------------------------------------------------------ local, url: handlers
\* assignDraftNumber up to showLoading(true): the message of the early return, "" when there is none
rejection(list, playerName) ==
    IF playerName = Blank THEN MsgEnterName
    ELSE IF playerExists(list, playerName) THEN MsgNameTaken
    ELSE IF Len(list) >= maxPlayers THEN MsgRosterFull
    ELSE ""

\* assignDraftNumber from showLoading(true) on
allocate(playerName, r, writeFails) ==
    LET loading == App(players, usedNumbers, storage, showLoading(dom, TRUE))
        g == generateRandomDraftNumber(players, usedNumbers, r)
    IN
    IF g.threw THEN
        /\ dom' = showLoading(showError(loading.dom, g.message), FALSE)
        /\ UNCHANGED <<players, usedNumbers, storage>>
    ELSE
        LET saved == savePlayer(loading, playerName, g.value, writeFails)
            shown == showResult(saved.dom, playerName, g.value)
        IN
        /\ players' = displayPlayersList(saved.players)
        /\ usedNumbers' = saved.usedNumbers
        /\ storage' = saved.storage
        /\ dom' = showLoading(shown, FALSE)

\* click on getDraftNumber, or Enter in playerName
assignDraftNumber(input) ==
    LET playerName == trim(input) IN
    IF rejection(players, playerName) # "" THEN
        /\ dom' = showError(dom, rejection(players, playerName))
        /\ UNCHANGED <<players, usedNumbers, storage, faults>>
    ELSE
        \E r \in RandomDraws, writeFails \in BOOLEAN :
            /\ Failing(<<writeFails>>)
            /\ allocate(playerName, r, writeFails)

AssignDraftNumber ==
    /\ variant \in SyncVariants
    /\ listeners
    /\ "inputForm" \in dom.sections
    /\ \E input \in Inputs : assignDraftNumber(input)
    /\ UNCHANGED <<variant, DuckVars, listeners, now, overlapsLeft, drawn>>

\* the page is opened again: constructor and initializeApp
initializeApp(token, readFails, writeFails) ==
    LET fresh == App(<<>>, {}, storage, InitialDom)
        fromURL == IF variant = "url" THEN loadPlayersFromURL(fresh, token, writeFails)
                   ELSE fresh
        loaded == loadPlayersFromJSON(fromURL, readFails)
    IN
    /\ players' = loaded.players
    /\ usedNumbers' = loaded.usedNumbers
    /\ storage' = loaded.storage
    /\ dom' = loaded.dom

Reload ==
    /\ variant \in SyncVariants
    /\ \E token \in (IF variant = "url" THEN Tokens ELSE {NoToken}),
          readFails \in BOOLEAN, writeFails \in BOOLEAN :
          /\ writeFails => (variant = "url" /\ token # NoToken)
          /\ Failing(<<readFails, writeFails>>)
          /\ initializeApp(token, readFails, writeFails)
    /\ UNCHANGED <<variant, DuckVars, listeners, now, overlapsLeft, drawn>>

\* click on newPlayer (the button of the result section)
NewPlayer ==
    /\ listeners
    /\ "resultDisplay" \in dom.sections
    /\ dom' = showInputForm(dom)
    /\ UNCHANGED <<variant, players, usedNumbers, storage, DuckVars, listeners, now, faults, overlapsLeft, drawn>>

\* the setTimeout of showError fires
ErrorTimeout ==
    /\ "errorDisplay" \in dom.sections
    /\ dom' = hideElement(dom, "errorDisplay")
    /\ UNCHANGED <<variant, players, usedNumbers, storage, DuckVars, listeners, now, faults, overlapsLeft, drawn>>

\* the millisecond clock advances between two handlers; only the synchronous
\* variants read it (id: Date.now())
Tick ==
    /\ variant \in SyncVariants
    /\ now < MaxNow
    /\ now' = now + 1
    /\ UNCHANGED <<variant, players, usedNumbers, storage, DuckVars, listeners, dom, faults, overlapsLeft, drawn>>

\* ------------------------------------------------------------------ duck: queries
\* this.conn.query(...) runs the statements in the order they are sent and
\* settles them in that order: the statement takes effect on the table when it
\* is sent (or fails and has none), and the code after the await runs when the
\* query is the oldest one not yet settled.
Call(c, at, name, num, ok, rows) ==
    [call |-> c, at |-> at, name |-> name, num |-> num, ok |-> ok, rows |-> rows]

\* SELECT COUNT(*) ... WHERE LOWER(name) = LOWER('<name>')
selectCount(rows, name) ==
    SelectSeq(rows, LAMBDA row : toLowerCase(row.name) = toLowerCase(name))

\* SELECT * FROM draft_players ORDER BY draft_number
selectAll(rows) == SortFrom(<<>>, rows)

\* INSERT INTO draft_players (name, draft_number) VALUES (...)
insertRow(rows, name, draftNumber) == Append(rows, Player(NullId, name, draftNumber))

\* await this.conn.query(...) as the last thing a step does
await(c, rest) == pending' = Append(rest, c)

\* loadExistingPlayers up to its await; conn is open in every caller reached
loadExistingPlayers(c, rest, fails) ==
    await(Call(c, "loadExistingPlayers", Blank, 0, ~fails,
               IF fails THEN <<>> ELSE selectAll(table)), rest)

\* loadExistingPlayers after its await
loadedNumbers(q) == IF q.ok THEN DraftNumbers(q.rows) ELSE usedNumbers

\* ------------------------------------------------------------------ duck: handlers
\* initializeApp: initializeDuckDB, createTables, loadExistingPlayers (the
\* table is new and empty), setupEventListeners; no handler is attached
\* before it ends
InitializeApp ==
    /\ variant = "duck"
    /\ conn = "connecting"
    /\ \E fails \in BOOLEAN :
          /\ Failing(<<fails>>)
          /\ IF fails
             THEN /\ conn' = "failed"
                  /\ dom' = showError(dom, MsgInitFailed)
                  /\ UNCHANGED <<listeners, usedNumbers>>
             ELSE /\ conn' = "open"
                  /\ usedNumbers' = DraftNumbers(selectAll(table))
                  /\ listeners' = TRUE
                  /\ UNCHANGED dom
    /\ UNCHANGED <<variant, SyncVars, table, pending, now, overlapsLeft, drawn>>

\* assignDraftNumber up to `await this.playerExists(playerName)`
AssignDraftNumberDB ==
    /\ variant = "duck"
    /\ listeners
    /\ "inputForm" \in dom.sections
    /\ \E input \in Inputs :
          LET playerName == trim(input) IN
          IF playerName = Blank THEN
              /\ dom' = showError(dom, MsgEnterName)
              /\ UNCHANGED <<pending, faults, overlapsLeft>>
          ELSE
              /\ Starting
              /\ \E fails \in BOOLEAN :
                    /\ Failing(<<fails>>)
                    /\ await(Call("assign", "playerExists", playerName, 0, ~fails,
                                  IF fails THEN <<>> ELSE selectCount(table, playerName)),
                             pending)
              /\ UNCHANGED dom
    /\ UNCHANGED <<variant, SyncVars, usedNumbers, conn, table, listeners, now, drawn>>

\* playerExists after its await
playerExistsDB(q) == q.ok /\ Len(q.rows) > 0

\* assignDraftNumber from the result of playerExists to the await in savePlayer
AfterPlayerExists ==
    /\ pending # <<>>
    /\ Head(pending).call = "assign" /\ Head(pending).at = "playerExists"
    /\ LET q == Head(pending) IN
       IF playerExistsDB(q) THEN
           /\ dom' = showError(dom, MsgNameTaken)
           /\ pending' = Tail(pending)
           /\ UNCHANGED <<table, faults>>
       ELSE
           \E r \in RandomDraws :
               LET g == generateRandomDraftNumberDB(usedNumbers, r) IN
               IF g.threw THEN
                   /\ dom' = showLoading(showError(showLoading(dom, TRUE), g.message), FALSE)
                   /\ pending' = Tail(pending)
                   /\ UNCHANGED <<table, faults>>
               ELSE
                   \E fails \in BOOLEAN :
                       /\ Failing(<<fails>>)
                       /\ dom' = showLoading(dom, TRUE)
                       /\ table' = IF fails THEN table ELSE insertRow(table, q.name, g.value)
                       /\ await(Call("assign", "savePlayer", q.name, g.value, ~fails, <<>>),
                                Tail(pending))
    /\ UNCHANGED <<variant, SyncVars, usedNumbers, conn, listeners, now, overlapsLeft, drawn>>

\* savePlayer after its await, then assignDraftNumber to the await in loadExistingPlayers
AfterSavePlayer ==
    /\ pending # <<>>
    /\ Head(pending).call = "assign" /\ Head(pending).at = "savePlayer"
    /\ LET q == Head(pending) IN
       IF q.ok THEN
           /\ usedNumbers' = usedNumbers \cup {q.num}
           /\ dom' = showResult(dom, q.name, q.num)
           /\ \E fails \in BOOLEAN :
                 /\ Failing(<<fails>>)
                 /\ loadExistingPlayers("assign", Tail(pending), fails)
       ELSE
           /\ dom' = showLoading(showError(dom, MsgInsertFailed), FALSE)
           /\ pending' = Tail(pending)
           /\ UNCHANGED <<usedNumbers, faults>>
    /\ UNCHANGED <<variant, SyncVars, conn, table, listeners, now, overlapsLeft, drawn>>

\* loadExistingPlayers after its await, then the end of assignDraftNumber
AfterReload ==
    /\ pending # <<>>
    /\ Head(pending).call = "assign" /\ Head(pending).at = "loadExistingPlayers"
    /\ usedNumbers' = loadedNumbers(Head(pending))
    /\ dom' = showLoading(dom, FALSE)
    /\ pending' = Tail(pending)
    /\ UNCHANGED <<variant, SyncVars, conn, table, listeners, now, faults, overlapsLeft, drawn>>

\* click on clearAll: clearAllPlayers up to `await this.conn.query('DELETE ...')`
ClearAllPlayers ==
    /\ variant = "duck"
    /\ listeners
    /\ \E confirmed \in BOOLEAN :
          IF ~confirmed THEN UNCHANGED <<table, pending, faults, overlapsLeft>>
          ELSE
              /\ Starting
              /\ \E fails \in BOOLEAN :
                    /\ Failing(<<fails>>)
                    /\ table' = IF fails THEN table ELSE <<>>
                    /\ await(Call("clear", "delete", Blank, 0, ~fails, <<>>), pending)
    /\ UNCHANGED <<variant, SyncVars, usedNumbers, conn, listeners, dom, now, drawn>>

\* clearAllPlayers from the result of DELETE to the await in loadExistingPlayers
AfterDelete ==
    /\ pending # <<>>
    /\ Head(pending).call = "clear" /\ Head(pending).at = "delete"
    /\ IF Head(pending).ok THEN
           /\ usedNumbers' = {}
           /\ \E fails \in BOOLEAN :
                 /\ Failing(<<fails>>)
                 /\ loadExistingPlayers("clear", Tail(pending), fails)
           /\ UNCHANGED dom
       ELSE
           /\ dom' = showError(dom, MsgClearFailed)
           /\ pending' = Tail(pending)
           /\ UNCHANGED <<usedNumbers, faults>>
    /\ UNCHANGED <<variant, SyncVars, conn, table, listeners, now, overlapsLeft, drawn>>

\* loadExistingPlayers after its await, then the end of clearAllPlayers
AfterClearReload ==
    /\ pending # <<>>
    /\ Head(pending).call = "clear" /\ Head(pending).at = "loadExistingPlayers"
    /\ usedNumbers' = loadedNumbers(Head(pending))
    /\ dom' = showInputForm(dom)
    /\ pending' = Tail(pending)
    /\ UNCHANGED <<variant, SyncVars, conn, table, listeners, now, faults, overlapsLeft, drawn>>

\* ------------------------------------------------------------------ specifications
SharedNext ==
    \/ NewPlayer
    \/ ErrorTimeout
    \/ Tick

AttemptNext ==
    \/ AssignDraftNumber
    \/ InitializeApp
    \/ AssignDraftNumberDB
    \/ AfterPlayerExists
    \/ AfterSavePlayer
    \/ AfterReload

Next ==
    \/ AttemptNext
    \/ SharedNext
    \/ Reload
    \/ ClearAllPlayers
    \/ AfterDelete
    \/ AfterClearReload

\* every variant, every handler
Spec == Init /\ [][Next]_vars

\* a first visit followed by allocation attempts only
SpecAttempts == Init /\ [][AttemptNext \/ SharedNext]_vars

\* a first visit followed by allocation attempts, each started when no call is in flight
SpecSerialAttempts == InitSerial /\ [][AttemptNext \/ SharedNext]_vars

\* ---- the allocator on its own
\* the numbers 1..PoolSize in used, given to names 1, 2, ... in ascending order
RECURSIVE RosterOf(_, _)
RosterOf(used, b) ==
    IF used = {} THEN <<>>
    ELSE LET d == CHOOSE x \in used : \A y \in used : x <= y IN
         <<Player(NullId, Name(b, FALSE), d)>> \o RosterOf(used \ {d}, b + 1)

\* generateRandomDraftNumber of the running variant, on the current state
generate(r) ==
    IF variant = "duck" THEN generateRandomDraftNumberDB(usedNumbers, r)
    ELSE generateRandomDraftNumber(players, usedNumbers, r)

\* the states in which assignDraftNumber calls generateRandomDraftNumber: any
\* usedNumbers; in the synchronous variants a roster below the player limit
\* (the roster of usedNumbers, or the empty one a failed load leaves behind)
InitAllocator ==
    /\ variant \in Variants
    /\ usedNumbers \in SUBSET (1..PoolSize)
    /\ IF variant = "duck"
       THEN /\ players = <<>>
            /\ table = RosterOf(usedNumbers, 1)
            /\ conn = "open"
       ELSE /\ players \in {p \in {RosterOf(usedNumbers, 1), <<>>} : Len(p) < maxPlayers}
            /\ table = <<>>
            /\ conn = "connecting"
    /\ storage = NoItem
    /\ pending = <<>>
    /\ listeners = TRUE
    /\ dom = showLoading(InitialDom, TRUE)
    /\ now = 1
    /\ faults = 0
    /\ overlapsLeft = 0
    /\ drawn = NoDraw

\* const draftNumber = this.generateRandomDraftNumber(), with any reading of Math.random()
GenerateRandomDraftNumber ==
    /\ drawn = NoDraw
    /\ \E r \in 0..(RandomResolution - 1) : drawn' = generate(r)
    /\ UNCHANGED <<variant, players, usedNumbers, storage, DuckVars, listeners, dom,
                   now, faults, overlapsLeft>>

SpecAllocator == InitAllocator /\ [][GenerateRandomDraftNumber]_vars

\* ---- a shared link opened by its recipient
\* the rosters a sender's page holds: up to MaxShared records, ascending by draftNumber
SharedRosters ==
    {RosterOf(u, 1) : u \in {v \in SUBSET (1..PoolSize) : Cardinality(v) \in 1..MaxShared}}

\* what localStorage of the recipient holds before the link is opened: nothing,
\* or the roster of an earlier visit
RecipientStores ==
    {NoItem, JSONstringify(RosterOf({3}, 1)), JSONstringify(RosterOf({2, 5}, 1))}

\* the recipient's browser before the page is opened
InitShare ==
    /\ variant = "url"
    /\ players = <<>>
    /\ usedNumbers = {}
    /\ storage \in RecipientStores
    /\ conn = "connecting"
    /\ table = <<>>
    /\ pending = <<>>
    /\ listeners = FALSE
    /\ dom = InitialDom
    /\ now = 1
    /\ faults = 0
    /\ overlapsLeft = 0
    /\ drawn = NoDraw

\* the recipient opens ?players=<token generateShareableURL made of a roster>
OpenSharedLink ==
    /\ variant = "url"
    /\ ~listeners
    /\ \E R \in SharedRosters, readFails \in BOOLEAN, writeFails \in BOOLEAN :
          /\ Failing(<<readFails, writeFails>>)
          /\ initializeApp(generateShareableURL(R), readFails, writeFails)
    /\ listeners' = TRUE
    /\ UNCHANGED <<variant, DuckVars, now, overlapsLeft, drawn>>

SpecShare == InitShare /\ [][OpenSharedLink]_vars

\* ------------------------------------------------------------------ claims
\* the roster of the running variant
Roster == IF variant = "duck" THEN table ELSE players

DistinctDraftNumbers(list) ==
    \A i, j \in DOMAIN list : i # j => list[i].draftNumber # list[j].draftNumber

DistinctNames(list) ==
    \A i, j \in DOMAIN list : i # j => toLowerCase(list[i].name) # toLowerCase(list[j].name)

\* C1: after a first visit and any sequence of allocation attempts, no two
\* records of the roster have the same draftNumber (checked under SpecAttempts).
C1_DraftNumbersUnique == DistinctDraftNumbers(Roster)

\* C2: after a first visit and any sequence of allocation attempts, no two
\* records of the roster have names that are equal ignoring case (checked
\* under SpecSerialAttempts: already false when no two attempts overlap).
C2_NamesUnique == DistinctNames(Roster)

\* C3: in every reachable state the roster has at most 10 records, every
\* draftNumber is an integer in 1..10 and no draftNumber repeats.
C3_RosterInvariant ==
    /\ Len(Roster) <= maxPlayers
    /\ \A i \in DOMAIN Roster : Roster[i].draftNumber \in 1..PoolSize
    /\ DistinctDraftNumbers(Roster)

\* the numbers a call may still hand out, and the results of a call over all
\* readings of Math.random()
Unused == (1..PoolSize) \ usedNumbers

PossibleResults == {generate(r) : r \in 0..(RandomResolution - 1)}

\* C4: for every proper subset usedNumbers of 1..10, a call of
\* generateRandomDraftNumber returns a value in 1..10 that is not in
\* usedNumbers, every unused number is a possible result, and the call changes
\* neither the roster nor usedNumbers (checked under SpecAllocator).
C4_BoundedAllocation ==
    /\ [](usedNumbers # 1..PoolSize =>
            /\ PossibleResults = {Returned(v) : v \in Unused}
            /\ drawn # NoDraw => drawn \in {Returned(v) : v \in Unused})
    /\ [][drawn' # drawn => UNCHANGED <<players, table, usedNumbers, storage>>]_vars

\* C4 witness: a call returned the one number left when nine are used
C4_Witness ==
    /\ Cardinality(usedNumbers) = PoolSize - 1
    /\ drawn # NoDraw
    /\ ~drawn.threw
    /\ drawn.value \in Unused

\* ---- allocation attempts, as steps
\* the step is assignDraftNumber of a synchronous variant with the trimmed input n
SyncAttempt(n) ==
    /\ variant \in SyncVariants
    /\ listeners
    /\ "inputForm" \in dom.sections
    /\ \E input \in Inputs : trim(input) = n /\ assignDraftNumber(input)

\* the step is the one of the DuckDB assignDraftNumber that follows the existence check
DuckDecision == variant = "duck" /\ AfterPlayerExists

\* the step is the one of the DuckDB assignDraftNumber that follows the INSERT
DuckInserted == variant = "duck" /\ AfterSavePlayer

\* after the step the page shows the error message m
Rejected(m) == "errorDisplay" \in dom'.sections /\ dom'.errorMessage = m

\* after the step the page shows the result for name n
Reported(n) == "resultDisplay" \in dom'.sections /\ dom'.resultName = n

StoreUnchanged == UNCHANGED <<players, table, usedNumbers, storage>>

\* C5: with 10 records in the roster, an attempt with a non-blank name that
\* is not in the roster is rejected with 'Maximum 10 players allowed! Clear
\* the list to add more.' and changes neither the roster, usedNumbers nor the
\* store, in every variant (checked under SpecSerialAttempts).
C5_Exhaustion ==
    [][ /\ \A n \in InputNames :
              (SyncAttempt(n) /\ n # Blank /\ ~playerExists(players, n)
                 /\ Len(players) = maxPlayers)
              => (Rejected(MsgRosterFull) /\ StoreUnchanged)
        /\ (DuckDecision /\ ~playerExists(table, Head(pending).name)
              /\ Len(table) = maxPlayers)
           => (Rejected(MsgRosterFull) /\ StoreUnchanged)
      ]_vars

\* C6: an attempt whose trimmed name equals, ignoring case, the name of a
\* record of the roster is rejected with 'This name has already been assigned
\* a draft number!' and changes neither the roster, usedNumbers nor the store
\* (checked under SpecSerialAttempts).
C6_DuplicateRejection ==
    [][ /\ \A n \in InputNames :
              (SyncAttempt(n) /\ n # Blank /\ playerExists(players, n))
              => (Rejected(MsgNameTaken) /\ StoreUnchanged)
        /\ (DuckDecision /\ playerExists(table, Head(pending).name))
           => (Rejected(MsgNameTaken) /\ StoreUnchanged)
      ]_vars

\* the step is an attempt of a synchronous variant whose localStorage.setItem throws
SyncWriteFailure ==
    /\ variant \in SyncVariants
    /\ "inputForm" \in dom.sections
    /\ \E n \in InputNames, r \in RandomDraws :
          /\ rejection(players, n) = ""
          /\ ~generateRandomDraftNumber(players, usedNumbers, r).threw
          /\ allocate(n, r, TRUE)

\* C7: when the write of the new record fails (setItem throws, the INSERT is
\* rejected) the attempt ends with an error shown, and the roster and
\* usedNumbers are what they were before the attempt.
C7_NoPartialState ==
    [][ /\ SyncWriteFailure
           => /\ "errorDisplay" \in dom'.sections
              /\ players' = players
              /\ usedNumbers' = usedNumbers
        /\ (DuckInserted /\ ~Head(pending).ok)
           => /\ "errorDisplay" \in dom'.sections
              /\ table' = table
              /\ usedNumbers' = usedNumbers
      ]_vars

\* C8: in the DuckDB variant no allocation attempt is started while another
\* one is between its existence check and the completion of its insert.
C8_AttemptsDoNotOverlap ==
    \A i, j \in DOMAIN pending :
        (i < j /\ pending[i].call = "assign"
               /\ pending[i].at \in {"playerExists", "savePlayer"})
        => pending[j].call # "assign"

\* the record of name n and number d
Holds(list, n, d) ==
    \E i \in DOMAIN list : list[i].name = n /\ list[i].draftNumber = d

\* C9: an attempt ends either with the result shown or with an error shown,
\* never both; the result is shown only if the record is in the roster and in
\* the store; an attempt that ends with an error has changed nothing.
C9_SuccessOrFailed ==
    [][ /\ \A n \in InputNames :
              SyncAttempt(n)
              => /\ Reported(n) # ("errorDisplay" \in dom'.sections)
                 /\ Reported(n) =>
                       /\ Holds(players', n, dom'.resultNumber)
                       /\ storage'.kind = "array"
                       /\ Holds(storage'.val, n, dom'.resultNumber)
                 /\ ~Reported(n) => StoreUnchanged
        /\ (DuckDecision /\ Len(pending') < Len(pending))
           => ("errorDisplay" \in dom'.sections /\ StoreUnchanged)
        /\ DuckInserted
           => IF Head(pending).ok
              THEN /\ Reported(Head(pending).name)
                   /\ "errorDisplay" \notin dom'.sections
                   /\ Holds(table', Head(pending).name, Head(pending).num)
              ELSE /\ "errorDisplay" \in dom'.sections
                   /\ "resultDisplay" \notin dom'.sections
                   /\ StoreUnchanged
      ]_vars

\* C10: when a confirmed clearAllPlayers has completed, the table is empty,
\* usedNumbers is empty and the next allocation can return any of 1..10.
C10_ClearResets ==
    [][ (variant = "duck" /\ AfterClearReload)
        => /\ table' = <<>>
           /\ usedNumbers' = {}
           /\ {generateRandomDraftNumberDB(usedNumbers', r) : r \in 0..(RandomResolution - 1)}
                = {Returned(v) : v \in 1..PoolSize}
      ]_vars

\* C11: a step after which a record of the roster is missing is a confirmed
\* clear, and a clear the user declined changes nothing; in particular a
\* load or save error drops no record.
C11_OnlyConfirmedClearDrops ==
    [][ /\ ~(Range(Roster) \subseteq Range(Roster'))
           => (variant = "duck" /\ ClearAllPlayers /\ pending' # pending)
        /\ (variant = "duck" /\ ClearAllPlayers /\ pending' = pending)
           => UNCHANGED <<table, usedNumbers>>
      ]_vars

\* C12: opening the page with the token generateShareableURL made of a
\* non-empty roster R leaves players = R and usedNumbers = the draft numbers
\* of R, whatever localStorage held and whether or not setItem throws
\* (checked under SpecShare).
C12_ShareableLinkRoundTrip ==
    [][ \A R \in SharedRosters, writeFails \in BOOLEAN :
            (variant = "url" /\ ~listeners
               /\ initializeApp(generateShareableURL(R), FALSE, writeFails))
            => (players' = R /\ usedNumbers' = DraftNumbers(R))
      ]_vars

\* what a rendering of the roster lists: the array displayPlayersList has sorted
Listing ==
    IF variant = "duck" THEN displayPlayersList(selectAll(table))
    ELSE displayPlayersList(players)

Ascending(list) ==
    \A i \in 1..(Len(list) - 1) : list[i].draftNumber < list[i + 1].draftNumber

\* C13: rendering the list of the roster again with no mutation in between
\* lists the same sequence of records, and the sequence is strictly ascending
\* by draftNumber.
C13_IdempotentListing ==
    LET first == Listing
        second == displayPlayersList(first)
    IN second = first /\ Ascending(first)

\* no attempt is in progress and the user can start one: the input form is
\* shown, or the result section with its newPlayer button is
FormReachable == "inputForm" \in dom.sections \/ "resultDisplay" \in dom.sections

\* C14: whenever the handlers are attached and no call is in progress (so
\* also after an attempt that ended in an error) the input form is shown or
\* can be brought back, and an attempt with a new non-blank name on a roster
\* below 10 records, with no storage or database failure, is carried through
\* to the result (checked under SpecSerialAttempts).
C14_ErrorsNonFatal ==
    /\ []((listeners /\ pending = <<>>) => FormReachable)
    /\ [][ /\ \A n \in InputNames :
                 (SyncAttempt(n) /\ n # Blank /\ ~playerExists(players, n)
                    /\ Len(players) < maxPlayers /\ faults' = faults)
                 => Reported(n)
           /\ (DuckDecision /\ ~playerExists(table, Head(pending).name)
                 /\ Len(table) < maxPlayers /\ faults' = faults)
              => (Len(pending') = Len(pending) /\ "errorDisplay" \notin dom'.sections)
           /\ (DuckInserted /\ Head(pending).ok) => Reported(Head(pending).name)
         ]_vars

\* no operation is in progress: initializeApp has ended and no call awaits a query
AtRest == pending = <<>> /\ (variant = "duck" => conn # "connecting")

\* C15: whenever no operation is in progress, usedNumbers is the set of the
\* draftNumber values of the records of the roster.
C15_UsedNumbersProjection == AtRest => usedNumbers = DraftNumbers(Roster)

\* the step is an attempt in which generateRandomDraftNumber threw m
Threw(m) ==
    \/ \E n \in InputNames, r \in RandomDraws :
          /\ SyncAttempt(n)
          /\ rejection(players, n) = ""
          /\ generateRandomDraftNumber(players, usedNumbers, r) = Thrown(m)
    \/ /\ DuckDecision
       /\ ~playerExistsDB(Head(pending))
       /\ \E r \in RandomDraws : generateRandomDraftNumberDB(usedNumbers, r) = Thrown(m)

\* C16: generateRandomDraftNumber never throws 'All draft numbers (1-10) have
\* been assigned!' while the roster holds fewer than 10 records, and whenever
\* no operation is in progress the count of available numbers is 10 minus
\* the size of the roster.
C16_PoolExhaustedUnreachable ==
    /\ [][Threw(MsgPoolExhausted) => Len(Roster) >= maxPlayers]_vars
    /\ [](AtRest => Len(availableNumbers(usedNumbers)) = PoolSize - Len(Roster))

\* C17: after a first visit and any sequence of allocation attempts, every
\* record of the roster has an id and no two records have the same id
\* (checked under SpecSerialAttempts).
C17_RecordIdsUnique ==
    \A i \in DOMAIN Roster :
        /\ Roster[i].id # NullId
        /\ \A j \in DOMAIN Roster : i # j => Roster[i].id # Roster[j].id

\* the step is an attempt of a synchronous variant that saved the record of
\* name n and rendered the list; before is this.players when
\* displayPlayersList was called
Rendered(n, before) ==
    /\ variant \in SyncVariants
    /\ "inputForm" \in dom.sections
    /\ rejection(players, n) = ""
    /\ \E r \in RandomDraws, writeFails \in BOOLEAN :
          LET g == generateRandomDraftNumber(players, usedNumbers, r) IN
          /\ ~g.threw
          /\ allocate(n, r, writeFails)
          /\ before = savePlayer(App(players, usedNumbers, storage, dom),
                                 n, g.value, writeFails).players

\* the rosters this.players may be at the call of displayPlayersList in an attempt
Unrendered == {Append(players, Player(now, n, d)) : n \in InputNames, d \in 1..PoolSize}

\* C18: displayPlayersList leaves this.players as it was, contents and
\* order (checked under SpecSerialAttempts; usedNumbers is not touched by it).
C18_DisplayReadOnly ==
    [][ \A n \in InputNames : \A before \in Unrendered :
            Rendered(n, before) => players' = before
      ]_vars

====
